---- MODULE Spec2Model ----
(***************************************************************************)
(* Repository discovery of helix-loader/src/projects.rs:                   *)
(* scan_git_repositories and the recursive walk scan_directory, run on a   *)
(* small file system with directories, regular files, symbolic links and   *)
(* directories whose listing fails.                                        *)
(*                                                                         *)
(* A path is the sequence of its components below "/", each component a    *)
(* name given by its rank in byte order: 0 is ".git", 1 is "a", 2 is "b".  *)
(***************************************************************************)
EXTENDS Integers, Sequences, FiniteSets, TLC

\* ---------------------------------------------------------------- bounds
\* Depth of the chain /a, /a/a, ... of candidate directories.
MaxDepth == 2
\* Number of entries of one file system that are symbolic links or
\* directories whose listing fails.
MaxSpecial == 1
\* Number of symbolic links one path resolution follows before it gives up.
MaxHops == 2
\* Number of records of a project list.
MaxProjects == 2
\* Width in bits of the model's u64; its i64 is as wide.
TimeBits == 2

\* ".git", the name compared at projects.rs:81
DotGit == 0
\* Two other names, "a" and "b", after ".git" in byte order.
NameA == DotGit + 1
NameB == NameA + 1
\* A name whose bytes are not valid UTF-8, used in project paths only.
NameRaw == NameB + 1

\* ------------------------------------------------------------------ paths
Parent(p) == SubSeq(p, 1, Len(p) - 1)

\* Path::starts_with: p has q as a prefix of whole components.
StartsWith(p, q) == Len(q) <= Len(p) /\ SubSeq(p, 1, Len(q)) = q

StrictlyInside(p, q) == StartsWith(p, q) /\ p # q

\* Ord of PathBuf: lexicographic over the components.
RECURSIVE PathLess(_, _)
PathLess(p, q) ==
    IF q = <<>> THEN FALSE
    ELSE IF p = <<>> THEN TRUE
    ELSE IF Head(p) # Head(q) THEN Head(p) < Head(q)
    ELSE PathLess(Tail(p), Tail(q))

\* ------------------------------------------------------------ file system
\* The candidate paths: the chain /a, /a/a, ... down to MaxDepth with a
\* ".git" in each of its directories, and /b with /b/.git and /b/.git/.git.
RECURSIVE Chain(_)
Chain(d) == IF d = 0 THEN <<>> ELSE Append(Chain(d - 1), NameA)

Universe ==
    {Chain(d) : d \in 1..MaxDepth}
    \cup {Append(Chain(d), DotGit) : d \in 1..MaxDepth}
    \cup {<<NameB>>, <<NameB, DotGit>>, <<NameB, DotGit, DotGit>>}

\* An entry is absent, a directory (with the outcome of listing it), a
\* regular file, or a symbolic link with an absolute target.
NoEntry == [kind |-> "none", target |-> <<>>, read |-> "ok"]
DirEntry(r) == [kind |-> "dir", target |-> <<>>, read |-> r]
FileEntry == [kind |-> "file", target |-> <<>>, read |-> "ok"]
LinkEntry(t) == [kind |-> "link", target |-> t, read |-> "ok"]

\* Listing a directory fails with permission-denied, fails with another I/O
\* error, or succeeds and then one entry of the listing cannot be read.
ReadFaults == {"denied", "ioerr", "entryerr"}

LinkTargets == {<<DotGit>>, <<NameA>>, <<NameB>>}

\* The candidate paths that may hold a regular file or a symbolic link:
\* /a/.git, the end of the chain, and /b.
FilePlaces == {<<NameA, DotGit>>, Chain(MaxDepth), <<NameB>>}

KindsAt(p) == IF p \in FilePlaces THEN {"none", "dir", "file"} ELSE {"none", "dir"}

Shapes ==
    { s \in [Universe -> {"none", "dir", "file"}] :
        \A p \in Universe :
            /\ s[p] \in KindsAt(p)
            /\ s[p] # "none" /\ Len(p) > 1 => s[Parent(p)] = "dir" }

\* The special entries a shape can carry at p: a directory, not named ".git",
\* whose listing fails, or a symbolic link in the place of a regular file.
SpecialsAt(s, p) ==
    IF s[p] = "dir"
    THEN IF p[Len(p)] = DotGit THEN {} ELSE {DirEntry(r) : r \in ReadFaults}
    ELSE IF s[p] = "file" THEN {LinkEntry(t) : t \in LinkTargets}
    ELSE {}

PlainAt(s, p) ==
    IF p = <<>> \/ s[p] = "dir" THEN DirEntry("ok")
    ELSE IF s[p] = "file" THEN FileEntry
    ELSE NoEntry

\* The file system of shape s whose entries at the paths of M are the special
\* entries m gives.
FileSystem(s, M, m) ==
    [p \in Universe \cup {<<>>} |-> IF p \in M THEN m[p] ELSE PlainAt(s, p)]

SpecialChoices(s, M) ==
    { m \in [M -> UNION {SpecialsAt(s, q) : q \in M}] :
        \A q \in M : m[q] \in SpecialsAt(s, q) }

Exists(f, p) == p \in DOMAIN f /\ f[p].kind # "none"

\* Resolution of a path from "/", following symbolic links; going through a
\* directory needs search permission on it, which a directory whose listing
\* is denied does not give.
Resolved(p) == [ok |-> TRUE, path |-> p, why |-> "ok"]
Unresolved(w) == [ok |-> FALSE, path |-> <<>>, why |-> w]

RECURSIVE ResolveFrom(_, _, _, _)
ResolveFrom(f, cur, rest, hops) ==
    IF rest = <<>> THEN Resolved(cur)
    ELSE IF f[cur].kind # "dir" THEN Unresolved("notdir")
    ELSE IF f[cur].read = "denied" THEN Unresolved("denied")
    ELSE LET next == Append(cur, Head(rest))
         IN IF ~Exists(f, next) THEN Unresolved("notfound")
            ELSE IF f[next].kind = "link"
                 THEN IF hops = 0 THEN Unresolved("loop")
                      ELSE ResolveFrom(f, <<>>, f[next].target \o Tail(rest), hops - 1)
            ELSE ResolveFrom(f, next, Tail(rest), hops)

\* Path::canonicalize
Canonicalize(f, p) == ResolveFrom(f, <<>>, p, MaxHops)

\* canonicalize().unwrap_or_else(|_| path.to_path_buf())
CanonicalizeOrRaw(f, p) ==
    LET c == Canonicalize(f, p) IN IF c.ok THEN c.path ELSE p

\* Path::is_dir: follows symbolic links.
IsDir(f, p) ==
    LET c == Canonicalize(f, p) IN c.ok /\ f[c.path].kind = "dir"

\* Path::is_symlink: the metadata of the entry itself, links in the parent
\* followed.
IsSymlink(f, p) ==
    /\ p # <<>>
    /\ LET c == Canonicalize(f, Parent(p))
       IN /\ c.ok
          /\ f[c.path].kind = "dir"
          /\ f[c.path].read # "denied"
          /\ Exists(f, Append(c.path, p[Len(p)]))
          /\ f[Append(c.path, p[Len(p)])].kind = "link"

\* The outcome of std::fs::read_dir(p).
ReadDir(f, p) ==
    LET c == Canonicalize(f, p)
    IN IF ~c.ok THEN (IF c.why = "denied" THEN "denied" ELSE "ioerr")
       ELSE IF f[c.path].kind # "dir" THEN "ioerr"
       ELSE f[c.path].read

\* The paths entry.path() yields for the entries of directory p.
Entries(f, p) ==
    LET c == Canonicalize(f, p)
    IN { Append(p, n) : n \in { m \in {DotGit, NameA, NameB} :
                                  Exists(f, Append(c.path, m)) } }

\* ---------------------------------------------------------- the program
VARIABLES
    fs,            \* the file system, unchanged by the scan
    rootArg,       \* the argument `root` of scan_git_repositories
    pc,            \* "start", "walk" or "done": where the call stands
    stack,         \* the active calls of scan_directory, innermost last
    repositories,  \* the HashSet `repositories`
    result,        \* what the call returned
    listed,        \* history: the directories whose entries were listed, in order
    prev,          \* history: what the previous call on this file system returned
    projects,      \* the caller's list of Project records
    file,          \* projects.toml: absent, or the document it holds
    saved,         \* history: the last call of save_projects and what it returned
    loaded,        \* what load_projects returned since the last save
    updated        \* history: the last call of update_project_last_accessed

store == <<projects, file, saved, loaded, updated>>

vars == <<fs, rootArg, pc, stack, repositories, result, listed, prev, store>>

NoResult == [tag |-> "none", repos |-> <<>>, op |-> "", path |-> <<>>]
Ok(repos) == [tag |-> "Ok", repos |-> repos, op |-> "", path |-> <<>>]
\* An error with its context: the operation that failed and the path named.
Err(op, path) == [tag |-> "Err", repos |-> <<>>, op |-> op, path |-> path]

\* A call of scan_directory: before its checks ("enter"), or in its loop over
\* the entries not yet enumerated ("iter").
Entered(current) == [current |-> current, phase |-> "enter", entries |-> {}]

RootArgs ==
    {<<>>, <<NameA>>, <<NameA, DotGit>>, <<NameB>>, <<NameB, DotGit>>,
     <<NameB, DotGit, DotGit>>}

Top == stack[Len(stack)]
Pop == SubSeq(stack, 1, Len(stack) - 1)
ReplaceTop(frame) == Append(Pop, frame)

\* Variant: the root falls back to the path as given, as scan_directory does.
CanonicalizeRootOrRaw(f, root) == Resolved(CanonicalizeOrRaw(f, root))

\* root.canonicalize().with_context(..)?
CanonicalizeRoot(f, root) == Canonicalize(f, root)

\* Variant: the name alone makes a marker, directory or not.
IsMarkerByName(f, current) == current # <<>> /\ current[Len(current)] = DotGit

\* file_name() == ".git" && current.is_dir(), with a parent to name
IsMarker(f, current) ==
    /\ current # <<>>
    /\ current[Len(current)] = DotGit
    /\ IsDir(f, current)

\* Variant: the marker directory itself is taken as the repository root.
RepoRootSelf(f, current) == CanonicalizeOrRaw(f, current)

\* repo_root.canonicalize().unwrap_or_else(..) of current.parent()
RepoRoot(f, current) == CanonicalizeOrRaw(f, Parent(current))

\* Variant: no directory counts as lying inside a discovered repository.
InsideRepositoryNever(current_canonical, repos) == FALSE

\* current_canonical lies inside a discovered repository
InsideRepository(current_canonical, repos) ==
    \E repo_root \in repos :
        StartsWith(current_canonical, repo_root) /\ current_canonical # repo_root

\* Variant: no failure of read_dir is recognised as permission-denied.
IsPermissionDeniedNever(outcome) == FALSE

\* e.kind() == std::io::ErrorKind::PermissionDenied
IsPermissionDenied(outcome) == outcome = "denied"

\* Variant: no entry is skipped.
SkipsNothing(f, path) == FALSE

\* path.is_symlink() => continue
SkipsEntry(f, path) == IsSymlink(f, path)

\* Variant: only the failing call returns; its caller goes on with its loop.
PropagateToCaller(stk) == SubSeq(stk, 1, Len(stk) - 1)

\* `?` on the error of a call: every active call returns it.
Propagate(stk) == <<>>

\* Vec::sort: insertion of each element at its place.
RECURSIVE Insert(_, _)
Insert(x, s) ==
    IF s = <<>> THEN <<x>>
    ELSE IF PathLess(Head(s), x) THEN <<Head(s)>> \o Insert(x, Tail(s))
    ELSE <<x>> \o s

\* Variant: the collected vector is returned as collected.
Unsorted(s) == s

RECURSIVE Sort(_)
Sort(s) == IF s = <<>> THEN <<>> ELSE Insert(Head(s), Sort(Tail(s)))

\* repositories.into_iter().collect(): the elements in any order.
Collected(S) ==
    { s \in [1..Cardinality(S) -> S] : \A i, j \in 1..Cardinality(S) : s[i] = s[j] => i = j }

Fail(op, path) ==
    /\ result' = Err(op, path)
    /\ stack' = Propagate(stack)
    /\ pc' = IF stack' = <<>> THEN "done" ELSE "walk"

\* ------------------------------------------------------ the project store
\* Option<T>
None == [some |-> FALSE, val |-> 0]
Some(v) == [some |-> TRUE, val |-> v]

\* The largest u64 and the largest i64 of the model's width.
U64Max == 2 ^ TimeBits - 1
I64Max == 2 ^ (TimeBits - 1) - 1

\* struct Project; the display name is one fixed string, here 1.
ProjectPaths == {<<NameA>>, <<NameB>>, <<NameRaw>>}
TimeValues == {0, I64Max, I64Max + 1}
Projects ==
    [path : ProjectPaths,
     name : {None, Some(1)},
     last_accessed : {None} \cup {Some(t) : t \in TimeValues}]

ProjectLists == UNION {[1..n -> Projects] : n \in 0..MaxProjects}

NoFile == [exists |-> FALSE, content |-> <<>>]
NoSave == [tag |-> "none", projects |-> <<>>]
NoLoad == [tag |-> "none", projects |-> <<>>]
NoUpdate == [done |-> FALSE, path |-> <<>>, now |-> 0, before |-> <<>>]

StoreIdle ==
    /\ projects = <<>>
    /\ file = NoFile
    /\ saved = NoSave
    /\ loaded = NoLoad
    /\ updated = NoUpdate

\* Serialize for Path: a path is written as a string when it is valid UTF-8.
PathIsUtf8(path) == \A i \in DOMAIN path : path[i] # NameRaw

\* A TOML integer is an i64.
FitsTomlInteger(t) == t <= I64Max

\* Variant: optional fields are written whether present or not.
FieldAlwaysWritten(opt) == TRUE

\* #[serde(skip_serializing_if = "Option::is_none")]
FieldIsWritten(opt) == opt.some

\* The table of one record: its keys are the fields written.
Keys(p) ==
    {"path"} \cup (IF FieldIsWritten(p.name) THEN {"name"} ELSE {})
             \cup (IF FieldIsWritten(p.last_accessed) THEN {"last_accessed"} ELSE {})

Table(p) ==
    [k \in Keys(p) |->
        IF k = "path" THEN p.path
        ELSE IF k = "name" THEN p.name.val
        ELSE p.last_accessed.val]

\* What the serializer refuses: a path that is no string, an integer out of
\* range, a None that is not skipped.
Writable(p) ==
    /\ PathIsUtf8(p.path)
    /\ \A k \in Keys(p) \ {"path"} :
         (IF k = "name" THEN p.name ELSE p.last_accessed).some
    /\ p.last_accessed.some => FitsTomlInteger(p.last_accessed.val)

\* toml::to_string_pretty(&ProjectsFile { projects })
ToToml(list) ==
    IF \A i \in DOMAIN list : Writable(list[i])
    THEN [ok |-> TRUE, doc |-> [i \in DOMAIN list |-> Table(list[i])]]
    ELSE [ok |-> FALSE, doc |-> <<>>]

\* Deserialize for Project: path is required, the Options default to None.
FromTable(t) ==
    [path |-> t["path"],
     name |-> IF "name" \in DOMAIN t THEN Some(t["name"]) ELSE None,
     last_accessed |->
        IF "last_accessed" \in DOMAIN t THEN Some(t["last_accessed"]) ELSE None]

Readable(t) ==
    /\ "path" \in DOMAIN t
    /\ "last_accessed" \in DOMAIN t =>
         t["last_accessed"] >= 0 /\ t["last_accessed"] <= U64Max

\* toml::from_str::<ProjectsFile>(&content)
FromToml(doc) ==
    IF \A i \in DOMAIN doc : Readable(doc[i])
    THEN [tag |-> "Ok", projects |-> [i \in DOMAIN doc |-> FromTable(doc[i])]]
    ELSE [tag |-> "Err", projects |-> <<>>]

\* Variant: the loop goes on after the first match.
RECURSIVE UpdateEveryMatch(_, _, _, _)
UpdateEveryMatch(f, list, path, now) ==
    IF list = <<>> THEN <<>>
    ELSE IF CanonicalizeOrRaw(f, Head(list).path) = path
         THEN <<[Head(list) EXCEPT !.last_accessed = Some(now)]>>
              \o UpdateEveryMatch(f, Tail(list), path, now)
         ELSE <<Head(list)>> \o UpdateEveryMatch(f, Tail(list), path, now)

\* for project in projects.iter_mut() { .. break; }, path canonicalized
RECURSIVE UpdateFirstMatch(_, _, _, _)
UpdateFirstMatch(f, list, path, now) ==
    IF list = <<>> THEN <<>>
    ELSE IF CanonicalizeOrRaw(f, Head(list).path) = path
         THEN <<[Head(list) EXCEPT !.last_accessed = Some(now)]>> \o Tail(list)
         ELSE <<Head(list)>> \o UpdateFirstMatch(f, Tail(list), path, now)

Init ==
    /\ \E s \in Shapes :
         \E M \in {X \in SUBSET Universe : Cardinality(X) <= MaxSpecial} :
           \E m \in SpecialChoices(s, M) : fs = FileSystem(s, M, m)
    /\ rootArg \in RootArgs
    /\ pc = "start"
    /\ stack = <<>>
    /\ repositories = {}
    /\ result = NoResult
    /\ listed = <<>>
    /\ prev = NoResult
    /\ StoreIdle

\* scan_git_repositories up to its call of scan_directory.
ScanGitRepositories ==
    /\ pc = "start"
    /\ repositories' = {}
    /\ LET root == CanonicalizeRoot(fs, rootArg)
       IN IF root.ok
          THEN /\ stack' = <<Entered(root.path)>>
               /\ pc' = "walk"
               /\ result' = result
          ELSE /\ stack' = <<>>
               /\ pc' = "done"
               /\ result' = Err("canonicalize", rootArg)
    /\ UNCHANGED <<store, fs, rootArg, listed, prev>>

Entering == pc = "walk" /\ stack # <<>> /\ Top.phase = "enter"
Iterating == pc = "walk" /\ stack # <<>> /\ Top.phase = "iter"

\* The marker check: current is a ".git" directory.
MarkerFound ==
    /\ Entering
    /\ IsMarker(fs, Top.current)
    /\ repositories' = repositories \cup {RepoRoot(fs, Top.current)}
    /\ stack' = Pop
    /\ UNCHANGED <<store, fs, rootArg, pc, result, listed, prev>>

\* The containment check: current lies inside a discovered repository.
SkipInside ==
    /\ Entering
    /\ ~IsMarker(fs, Top.current)
    /\ InsideRepository(CanonicalizeOrRaw(fs, Top.current), repositories)
    /\ stack' = Pop
    /\ UNCHANGED <<store, fs, rootArg, pc, repositories, result, listed, prev>>

Reading ==
    /\ Entering
    /\ ~IsMarker(fs, Top.current)
    /\ ~InsideRepository(CanonicalizeOrRaw(fs, Top.current), repositories)

\* read_dir fails with permission-denied: the call returns Ok.
ReadDirDenied ==
    /\ Reading
    /\ ReadDir(fs, Top.current) # "ok"
    /\ ReadDir(fs, Top.current) # "entryerr"
    /\ IsPermissionDenied(ReadDir(fs, Top.current))
    /\ stack' = Pop
    /\ UNCHANGED <<store, fs, rootArg, pc, repositories, result, listed, prev>>

\* read_dir fails otherwise: the error is returned.
ReadDirFailed ==
    /\ Reading
    /\ ReadDir(fs, Top.current) # "ok"
    /\ ReadDir(fs, Top.current) # "entryerr"
    /\ ~IsPermissionDenied(ReadDir(fs, Top.current))
    /\ Fail("read_dir", Top.current)
    /\ UNCHANGED <<store, fs, rootArg, repositories, listed, prev>>

\* read_dir succeeds: the loop over the entries starts.
ReadDirOk ==
    /\ Reading
    /\ ReadDir(fs, Top.current) \in {"ok", "entryerr"}
    /\ stack' = ReplaceTop([current |-> Top.current, phase |-> "iter",
                            entries |-> Entries(fs, Top.current)])
    /\ listed' = Append(listed, Top.current)
    /\ UNCHANGED <<store, fs, rootArg, pc, repositories, result, prev>>

\* An entry of the listing cannot be read.
EntryFailed ==
    /\ Iterating
    /\ ReadDir(fs, Top.current) = "entryerr"
    /\ Fail("entry", Top.current)
    /\ UNCHANGED <<store, fs, rootArg, repositories, listed, prev>>

Remaining(path) ==
    ReplaceTop([current |-> Top.current, phase |-> "iter",
                entries |-> Top.entries \ {path}])

\* The next entry, in any order, is a symbolic link: skipped.
SkipSymlink ==
    /\ Iterating
    /\ \E path \in Top.entries :
        /\ SkipsEntry(fs, path)
        /\ stack' = Remaining(path)
    /\ UNCHANGED <<store, fs, rootArg, pc, repositories, result, listed, prev>>

\* The next entry is a directory: scan_directory is called on it.
Recurse ==
    /\ Iterating
    /\ \E path \in Top.entries :
        /\ ~SkipsEntry(fs, path)
        /\ IsDir(fs, path)
        /\ stack' = Append(Remaining(path), Entered(path))
    /\ UNCHANGED <<store, fs, rootArg, pc, repositories, result, listed, prev>>

\* The next entry is no directory: ignored.
IgnoreEntry ==
    /\ Iterating
    /\ \E path \in Top.entries :
        /\ ~SkipsEntry(fs, path)
        /\ ~IsDir(fs, path)
        /\ stack' = Remaining(path)
    /\ UNCHANGED <<store, fs, rootArg, pc, repositories, result, listed, prev>>

\* The loop is over: the call returns Ok.
Return ==
    /\ Iterating
    /\ Top.entries = {}
    /\ ReadDir(fs, Top.current) # "entryerr"
    /\ stack' = Pop
    /\ UNCHANGED <<store, fs, rootArg, pc, repositories, result, listed, prev>>

\* scan_git_repositories after the walk: collect, sort, return.
CollectAndSort ==
    /\ pc = "walk"
    /\ stack = <<>>
    /\ \E repos \in Collected(repositories) : result' = Ok(Sort(repos))
    /\ pc' = "done"
    /\ UNCHANGED <<store, fs, rootArg, stack, repositories, listed, prev>>

\* The caller calls scan_git_repositories once more on the same root.
ScanAgain ==
    /\ pc = "done"
    /\ prev = NoResult
    /\ prev' = result
    /\ pc' = "start"
    /\ result' = NoResult
    /\ listed' = <<>>
    /\ UNCHANGED <<store, fs, rootArg, stack, repositories>>

Walk ==
    \/ ScanGitRepositories
    \/ MarkerFound
    \/ SkipInside
    \/ ReadDirDenied
    \/ ReadDirFailed
    \/ ReadDirOk
    \/ EntryFailed
    \/ SkipSymlink
    \/ Recurse
    \/ IgnoreEntry
    \/ Return
    \/ CollectAndSort

\* One call of scan_git_repositories.
Next == Walk

Spec == Init /\ [][Next]_vars

\* One call that runs on: a step that can be taken is taken.
SpecFair == Spec /\ WF_vars(Next)

\* Two calls of scan_git_repositories on the same root and file system.
NextAgain == Walk \/ ScanAgain

SpecAgain == Init /\ [][NextAgain]_vars
\* The scan at rest, for the runs of the project store.
ScanIdle ==
    /\ rootArg = <<>>
    /\ pc = "idle"
    /\ stack = <<>>
    /\ repositories = {}
    /\ result = NoResult
    /\ listed = <<>>
    /\ prev = NoResult

scan == <<fs, rootArg, pc, stack, repositories, result, listed, prev>>

\* A file system with /a a directory and /b absent, a directory, a regular
\* file or a symbolic link.
StoreShapes ==
    {s \in Shapes : s[<<NameA>>] = "dir" /\ \A p \in Universe : Len(p) > 1 => s[p] = "none"}

InitStore ==
    /\ \E s \in StoreShapes :
         \E M \in {X \in SUBSET {<<NameB>>} : s[<<NameB>>] = "file" \/ X = {}} :
           \E m \in {x \in SpecialChoices(s, M) : \A q \in M : x[q].kind = "link"} :
             fs = FileSystem(s, M, m)
    /\ ScanIdle
    /\ projects \in ProjectLists
    /\ file = NoFile
    /\ saved = NoSave
    /\ loaded = NoLoad
    /\ updated = NoUpdate

\* load_projects
LoadProjects ==
    /\ pc = "idle"
    /\ loaded' = IF ~file.exists THEN [tag |-> "Ok", projects |-> <<>>]
                 ELSE FromToml(file.content)
    /\ UNCHANGED <<scan, projects, file, saved, updated>>

\* save_projects(&projects)
SaveProjects ==
    /\ pc = "idle"
    /\ LET content == ToToml(projects)
       IN IF content.ok
          THEN /\ file' = [exists |-> TRUE, content |-> content.doc]
               /\ saved' = [tag |-> "Ok", projects |-> projects]
          ELSE /\ file' = file
               /\ saved' = [tag |-> "Err", projects |-> projects]
    /\ loaded' = NoLoad
    /\ UNCHANGED <<scan, projects, updated>>

\* update_project_last_accessed(&mut projects, path) at time now
UpdateProjectLastAccessed ==
    /\ pc = "idle"
    /\ ~updated.done
    /\ \E path \in ProjectPaths : \E now \in TimeValues :
         /\ projects' = UpdateFirstMatch(fs, projects, CanonicalizeOrRaw(fs, path), now)
         /\ updated' = [done |-> TRUE, path |-> path, now |-> now, before |-> projects]
    /\ UNCHANGED <<scan, file, saved, loaded>>

\* The project store: loads and saves of one list.
NextStore == LoadProjects \/ SaveProjects

SpecStore == InitStore /\ [][NextStore]_vars

\* One update of one list.
NextUpdate == UpdateProjectLastAccessed

SpecUpdate == InitStore /\ [][NextUpdate]_vars

\* ------------------------------------------------------------ properties
Succeeded == pc = "done" /\ result.tag = "Ok"
Failed == result.tag = "Err"

ResultSet == {result.repos[i] : i \in DOMAIN result.repos}
ListedSet == {listed[i] : i \in DOMAIN listed}

\* The canonical root the walk starts from.
CanonicalRoot == Canonicalize(fs, rootArg).path

\* The directories named ".git" of the file system (no files, no links).
MarkerDirs == {p \in Universe : fs[p].kind = "dir" /\ p[Len(p)] = DotGit}

\* Those in the tree under the canonical root.
MarkersInTree == {g \in MarkerDirs : StartsWith(g, CanonicalRoot)}

\* The directories of the tree from the root down to the parent of g.
AncestorsInTree(g) ==
    {d \in DOMAIN fs : StartsWith(g, d) /\ d # g /\ StartsWith(d, CanonicalRoot)}

NoNesting(S) == \A p, q \in S : ~StrictlyInside(p, q)

\* C1: neither the accumulator during the walk nor the returned sequence
\* holds two paths of which one is a strict ancestor of the other.
C1_NoNestedRoots ==
    /\ NoNesting(repositories)
    /\ result.tag = "Ok" => NoNesting(ResultSet)

\* C2: when a listed directory R has a ".git" directory as a child and
\* another ".git" directory deeper inside it, a successful scan returns R and
\* no path strictly inside R.
C2_OuterRootOnly ==
    Succeeded =>
        \A R \in ListedSet :
            ( /\ Append(R, DotGit) \in MarkerDirs
              /\ \E g \in MarkerDirs : StrictlyInside(g, R) /\ Len(g) > Len(R) + 1 )
            => /\ R \in ResultSet
               /\ \A r \in ResultSet : ~StrictlyInside(r, R)

\* C3: two successful scans of the same root on the same file system return
\* the same sequence, whatever the order in which entries were enumerated.
C3_SameResultAgain ==
    pc = "done" /\ prev.tag = "Ok" /\ result.tag = "Ok" => result = prev

\* C4 as stated: a successful scan of a tree with exactly one ".git"
\* directory returns exactly the parent of that directory.
C4_SingleMarker ==
    Succeeded /\ Canonicalize(fs, rootArg).ok =>
        \A g \in MarkersInTree :
            MarkersInTree = {g} => result.repos = <<Parent(g)>>

\* C4 amended: a successful scan of a tree with exactly one ".git" directory,
\* in which no directory from the root down to the parent of that ".git" has
\* its listing denied, returns exactly the parent of that directory.
C4_SingleMarkerListable ==
    Succeeded /\ Canonicalize(fs, rootArg).ok =>
        \A g \in MarkersInTree :
            ( /\ MarkersInTree = {g}
              /\ \A d \in AncestorsInTree(g) : fs[d].read # "denied" )
            => result.repos = <<Parent(g)>>

C4_Witness ==
    /\ Succeeded
    /\ Canonicalize(fs, rootArg).ok
    /\ \E g \in MarkersInTree :
         /\ MarkersInTree = {g}
         /\ Len(g) > Len(CanonicalRoot) + 1
         /\ result.repos = <<Parent(g)>>

\* No component of p is a symbolic link: p is its own canonical form.
LinkFree(p) == Canonicalize(fs, p).ok /\ Canonicalize(fs, p).path = p

\* C5: symbolic links are never followed: every directory entered or listed
\* is reached without a link, every root in the accumulator is the parent of
\* a ".git" directory lying in the tree under the root itself, and the result
\* holds no path twice.
C5_SymlinksNotFollowed ==
    /\ \A i \in DOMAIN stack : LinkFree(stack[i].current)
    /\ \A p \in ListedSet : LinkFree(p)
    /\ \A r \in repositories :
         Append(r, DotGit) \in MarkerDirs /\ StartsWith(Append(r, DotGit), CanonicalRoot)
    /\ result.tag = "Ok" =>
         \A i, j \in DOMAIN result.repos : result.repos[i] = result.repos[j] => i = j

\* A link in a listed directory leads to a directory holding a ".git"
\* directory, and that directory is not in the result.
C5_Witness ==
    /\ Succeeded
    /\ \E p \in Universe :
         /\ fs[p].kind = "link"
         /\ Parent(p) \in ListedSet
         /\ Canonicalize(fs, p).ok
         /\ Append(Canonicalize(fs, p).path, DotGit) \in MarkerDirs
         /\ Canonicalize(fs, p).path \notin ResultSet

\* The subdirectories of the tree whose listing is denied.
DeniedDirs ==
    {d \in Universe : /\ fs[d].kind = "dir"
                      /\ fs[d].read = "denied"
                      /\ StrictlyInside(d, CanonicalRoot)}

\* No directory strictly above p holds a ".git" directory.
NoMarkerAbove(p) ==
    \A a \in DOMAIN fs : StrictlyInside(p, a) => Append(a, DotGit) \notin MarkerDirs

\* C6, in states: a denied listing is never the error of the scan, no root
\* lies in the subtree of a directory whose listing is denied, and a sibling
\* of such a directory that holds a ".git" directory, is listable and lies
\* under no other repository is returned by the successful scan.
C6_DeniedState ==
    /\ Failed /\ result.op = "read_dir" => ReadDir(fs, result.path) # "denied"
    /\ \A D \in DeniedDirs : \A r \in repositories \cup ResultSet : ~StartsWith(r, D)
    /\ Succeeded =>
         \A D \in DeniedDirs : \A S \in Universe :
            ( /\ Parent(S) = Parent(D)
              /\ Parent(D) \in ListedSet
              /\ S[Len(S)] # DotGit
              /\ fs[S].kind = "dir" /\ fs[S].read = "ok"
              /\ Append(S, DotGit) \in MarkerDirs
              /\ NoMarkerAbove(S) )
            => S \in ResultSet

\* C6, in steps: the call on a directory whose listing is denied returns
\* with the accumulator, the result and the callers as they were, as the
\* call on an empty directory does.
C6_DeniedStep ==
    ( /\ Reading
      /\ ReadDir(fs, Top.current) = "denied" )
    => /\ stack' = Pop
       /\ UNCHANGED <<repositories, result, pc>>

\* C6: a subdirectory whose listing is denied does not fail the scan, adds no
\* root from its subtree, and leaves the discovery of its siblings as it is
\* for an empty directory.
C6_PermissionDenied == []C6_DeniedState /\ [][C6_DeniedStep]_vars

C6_Witness ==
    /\ Succeeded
    /\ \E D \in DeniedDirs : \E S \in ResultSet :
         /\ Parent(S) = Parent(D)
         /\ Parent(D) \in ListedSet
         /\ Append(D, DotGit) \in MarkerDirs

\* C7, in states: an error of listing names the directory whose listing
\* failed, for a reason other than permission-denied or on one of its
\* entries; it carries no roots and every call has returned; and a scan that
\* succeeded listed no directory with an unreadable entry.
C7_FailedState ==
    /\ Failed /\ result.op # "canonicalize" =>
         /\ pc = "done"
         /\ stack = <<>>
         /\ result.repos = <<>>
         /\ result.op = "read_dir" => ReadDir(fs, result.path) = "ioerr"
         /\ result.op = "entry" =>
              ReadDir(fs, result.path) = "entryerr" /\ result.path \in ListedSet
    /\ Succeeded => \A p \in ListedSet : ReadDir(fs, p) = "ok"

\* C7, in steps: a listing that fails for another reason than
\* permission-denied ends the scan with the error naming that directory, and
\* after an error no directory is listed.
C7_FailedStep ==
    /\ ( Reading /\ ReadDir(fs, Top.current) = "ioerr" )
       => result' = Err("read_dir", Top.current) /\ pc' = "done"
    /\ Failed => listed' = listed /\ result' = result

C8_RootResolution ==
    ~Canonicalize(fs, rootArg).ok /\ pc # "start" =>
        /\ pc = "done"
        /\ result = Err("canonicalize", rootArg)
        /\ listed = <<>>
        /\ stack = <<>>
        /\ repositories = {}

\* The root is a symbolic link that does not resolve.
C8_Witness ==
    /\ pc = "done"
    /\ ~Canonicalize(fs, rootArg).ok
    /\ fs[rootArg].kind = "link"
    /\ Failed

\* C9: every path a successful scan returns is the canonical root or lies
\* under it.
C9_UnderRoot ==
    Succeeded => \A r \in ResultSet : StartsWith(r, CanonicalRoot)

\* C10: the sequence a successful scan returns is strictly ascending in the
\* order of paths.
C10_StrictlyAscending ==
    Succeeded =>
        \A i, j \in DOMAIN result.repos :
            i < j => PathLess(result.repos[i], result.repos[j])

C10_Witness == Succeeded /\ Len(result.repos) >= 2

\* C11 as stated: no path is both in the accumulator and among the
\* directories whose entries were listed.
C11_RootNeverListed == repositories \cap ListedSet = {}

\* C11 amended: no directory is handed to scan_directory, and so none is
\* listed, once it is in the accumulator; a root of the accumulator had its
\* entries listed before its marker was found, unless it is the parent of the
\* scan root.
C11_ListedBeforeInserted ==
    /\ \A i \in DOMAIN stack :
         stack[i].phase = "enter" =>
            CanonicalizeOrRaw(fs, stack[i].current) \notin repositories
    /\ \A r \in repositories : r \in ListedSet \/ r = Parent(CanonicalRoot)
    /\ \A i, j \in DOMAIN listed :
         CanonicalizeOrRaw(fs, listed[i]) = CanonicalizeOrRaw(fs, listed[j]) => i = j

\* A root was inserted after its own entries were listed, and the walk still
\* hands subdirectories to scan_directory.
C11_Witness ==
    /\ Entering
    /\ \E r \in repositories : r \in ListedSet /\ StrictlyInside(Top.current, r)

\* C12 as stated: load_projects returns the empty list when the file does
\* not exist, and for every list a save followed by a load returns the list
\* saved.
C12_RoundTrip ==
    /\ ~file.exists /\ loaded.tag # "none" => loaded = [tag |-> "Ok", projects |-> <<>>]
    /\ saved.tag # "none" /\ loaded.tag # "none" =>
         loaded = [tag |-> "Ok", projects |-> saved.projects]

\* The lists TOML can hold: every path is valid UTF-8 and every timestamp is
\* at most the largest i64.
Storable(list) ==
    \A i \in DOMAIN list :
        /\ NameRaw \notin {list[i].path[k] : k \in DOMAIN list[i].path}
        /\ list[i].last_accessed.some => list[i].last_accessed.val <= I64Max

\* C12 amended: load_projects returns the empty list when the file does not
\* exist; a list whose paths are valid UTF-8 and whose timestamps are at most
\* the largest i64 is saved without error, and a save that succeeded followed
\* by a load returns the records saved, absent fields absent.
C12_RoundTripStorable ==
    /\ ~file.exists /\ loaded.tag # "none" => loaded = [tag |-> "Ok", projects |-> <<>>]
    /\ saved.tag # "none" /\ Storable(saved.projects) => saved.tag = "Ok"
    /\ saved.tag = "Ok" /\ loaded.tag # "none" =>
         /\ loaded.tag = "Ok"
         /\ Len(loaded.projects) = Len(saved.projects)
         /\ \A i \in DOMAIN saved.projects :
              /\ loaded.projects[i].path = saved.projects[i].path
              /\ loaded.projects[i].name = saved.projects[i].name
              /\ loaded.projects[i].last_accessed = saved.projects[i].last_accessed

\* A list of two records, one with both optional fields absent and one with
\* both present, was saved and loaded.
C12_Witness ==
    /\ saved.tag = "Ok"
    /\ loaded.tag = "Ok"
    /\ Len(loaded.projects) = 2
    /\ ~loaded.projects[1].name.some /\ ~loaded.projects[1].last_accessed.some
    /\ loaded.projects[2].name.some /\ loaded.projects[2].last_accessed.some

\* The first index of list whose record satisfies Match, 0 when there is none.
FirstIndex(list, Match(_)) ==
    IF \E i \in DOMAIN list : Match(list[i])
    THEN CHOOSE i \in DOMAIN list : Match(list[i]) /\ \A j \in 1..(i - 1) : ~Match(list[j])
    ELSE 0

\* The list after the call is the list before it, but for the record at
\* index i, whose last_accessed is the time of the call.
OnlyChanged(i) ==
    /\ Len(projects) = Len(updated.before)
    /\ \A j \in DOMAIN projects :
         /\ projects[j].path = updated.before[j].path
         /\ projects[j].name = updated.before[j].name
         /\ projects[j].last_accessed =
              IF j = i THEN Some(updated.now) ELSE updated.before[j].last_accessed

SamePath(p) == p.path = updated.path

SameCanonicalPath(p) ==
    CanonicalizeOrRaw(fs, p.path) = CanonicalizeOrRaw(fs, updated.path)

\* C13 as stated: the call changes the first record whose path equals the
\* given path, and nothing else.
C13_FirstEqualPath ==
    updated.done => OnlyChanged(FirstIndex(updated.before, SamePath))

\* C13 amended: the call changes the first record whose canonical path (the
\* path as given when it does not resolve) equals the canonical given path:
\* its last_accessed becomes the current time; every other record, later
\* matches included, and every path and name stay as they were, and the list
\* is unchanged when no record matches.
C13_FirstCanonicalPath ==
    updated.done => OnlyChanged(FirstIndex(updated.before, SameCanonicalPath))

\* Two records match, the second keeps a timestamp other than the time of
\* the call.
C13_Witness ==
    /\ updated.done
    /\ Len(projects) = 2
    /\ SameCanonicalPath(updated.before[1])
    /\ SameCanonicalPath(updated.before[2])
    /\ projects[1].last_accessed = Some(updated.now)
    /\ projects[2].last_accessed # Some(updated.now)

\* C14: no directory whose entries were listed lies strictly inside a root of
\* the result the successful scan returns.
C14_NeverReadInsideRoot ==
    Succeeded => \A p \in ListedSet : \A r \in ResultSet : ~StrictlyInside(p, r)

\* C15, in steps: the directory whose entries are listed in a step is no
\* strict descendant of a root of the accumulator; no root leaves the
\* accumulator during the walk; and the step that inserts a root ends the
\* call on the marker only, the calls that are enumerating stay as they are.
C15_ListStep ==
    /\ listed' # listed =>
         /\ listed' = Append(listed, Top.current)
         /\ \A r \in repositories :
              ~StrictlyInside(CanonicalizeOrRaw(fs, Top.current), r)
    /\ pc = "walk" => repositories \subseteq repositories'
    /\ repositories' # repositories =>
         /\ stack' = SubSeq(stack, 1, Len(stack) - 1)
         /\ pc' = pc

\* C15, in states: no call that is enumerating a directory works strictly
\* inside a root of the accumulator, and a root whose call is on the stack is
\* still being enumerated.
C15_ListState ==
    \A i \in DOMAIN stack :
        /\ stack[i].phase = "iter" =>
             \A r \in repositories : ~StrictlyInside(stack[i].current, r)
        /\ i < Len(stack) => stack[i].phase = "iter"

\* C15: a directory is listed only when it is no strict descendant of a root
\* of the accumulator, so nothing strictly inside an inserted root is listed
\* later, while the enumeration of the root goes on.
C15_PrunedOnceInserted == []C15_ListState /\ [][C15_ListStep]_vars

\* A subdirectory of a root of the accumulator is about to be skipped, and
\* the call on the root is still enumerating.
C15_Witness ==
    /\ Entering
    /\ ~IsMarker(fs, Top.current)
    /\ Len(stack) > 1
    /\ stack[Len(stack) - 1].current \in repositories
    /\ stack[Len(stack) - 1].phase = "iter"
    /\ StrictlyInside(Top.current, stack[Len(stack) - 1].current)

\* The path names a real directory called ".git".
IsDotGitDir(p) == p \in MarkerDirs

\* C16, in states: the entries of a ".git" directory are never listed, and no
\* root of the accumulator is itself a directory named ".git", the root a
\* ".git" directory inside another ".git" directory would contribute.
C16_MarkerState ==
    /\ \A p \in ListedSet : ~IsDotGitDir(p)
    /\ \A r \in repositories : ~IsDotGitDir(r)

\* C16, in steps: the visit of a ".git" directory puts its parent into the
\* accumulator and returns, whatever roots the accumulator holds, without
\* listing anything.
C16_MarkerStep ==
    ( Entering /\ IsDotGitDir(Top.current) )
    => /\ repositories' = repositories \cup {Parent(Top.current)}
       /\ listed' = listed
       /\ stack' = SubSeq(stack, 1, Len(stack) - 1)

\* C16: the visit of a ".git" directory inserts its parent before any
\* containment check and never lists the ".git" directory, so a ".git"
\* directory inside another ".git" directory contributes no root.
C16_MarkerFirst == []C16_MarkerState /\ [][C16_MarkerStep]_vars

\* Every directory from the canonical root down to D is a directory whose
\* listing succeeds.
ReadableTo(D) ==
    \A d \in DOMAIN fs :
        StartsWith(D, d) /\ StartsWith(d, CanonicalRoot) =>
            fs[d].kind = "dir" /\ fs[d].read = "ok"

\* D is an outermost repository of the scanned tree: it holds a ".git"
\* directory, and no directory of the tree strictly above it does.
Outermost(D) ==
    /\ StartsWith(D, CanonicalRoot)
    /\ Append(D, DotGit) \in MarkerDirs
    /\ \A a \in DOMAIN fs :
         StrictlyInside(D, a) /\ StartsWith(a, CanonicalRoot) =>
            Append(a, DotGit) \notin MarkerDirs

\* C17: a successful scan returns every outermost repository of the tree
\* that is reached from the root through directories whose listing succeeds.
C17_OutermostReturned ==
    Succeeded =>
        \A D \in DOMAIN fs : Outermost(D) /\ ReadableTo(D) => D \in ResultSet

\* C18, in states: every root of the accumulator and of the result is the
\* parent of a real directory named ".git", and a successful scan of a tree
\* without such a directory returns the empty sequence.
C18_SoundState ==
    /\ \A r \in repositories \cup ResultSet : IsDotGitDir(Append(r, DotGit))
    /\ Succeeded /\ MarkersInTree = {} => result.repos = <<>>

\* C18, in steps: a root enters the accumulator in the visit of its ".git"
\* directory and in no other step, and the sequence returned holds the roots
\* of the accumulator and nothing else.
C18_SoundStep ==
    /\ repositories' # repositories =>
         /\ Entering
         /\ IsDotGitDir(Top.current)
         /\ repositories' = repositories \cup {Parent(Top.current)}
    /\ result'.tag = "Ok" =>
         {result'.repos[i] : i \in DOMAIN result'.repos} = repositories

\* C18: every root accumulated or returned is the parent of a ".git"
\* directory the walk visited, a real directory; without ".git" directories
\* the result is empty.
C18_Soundness == []C18_SoundState /\ [][C18_SoundStep]_vars

\* A listed directory holds a regular file or a symbolic link named ".git"
\* and is not returned, while another directory is.
C18_Witness ==
    /\ Succeeded
    /\ ResultSet # {}
    /\ \E p \in Universe :
         /\ p[Len(p)] = DotGit
         /\ fs[p].kind \in {"file", "link"}
         /\ Parent(p) \in ListedSet
         /\ Parent(p) \notin ResultSet

\* The scan has returned, with a result or with an error.
Returned == pc = "done" /\ result.tag \in {"Ok", "Err"}

\* No directory had its entries listed twice, under one name or under two.
ListedOnce ==
    \A i \in DOMAIN listed : \A j \in DOMAIN listed :
        i < j => /\ listed[i] # listed[j]
                 /\ Canonicalize(fs, listed[i]).path # Canonicalize(fs, listed[j]).path

\* C19: on every file system, symbolic links forming cycles or pointing to
\* ancestors included, the scan returns with a result or an error, and at
\* every point of it no directory has been listed more than once.
C19_Terminates == <>Returned /\ []ListedOnce

\* The scan has returned after listing a directory that holds a symbolic link
\* to that directory or to one above it.
C19_Witness ==
    /\ Returned
    /\ \E p \in Universe :
         /\ fs[p].kind = "link"
         /\ Parent(p) \in ListedSet
         /\ Canonicalize(fs, p).ok
         /\ StartsWith(Parent(p), Canonicalize(fs, p).path)

====
